---- MODULE Spec2Model ----
(***************************************************************************)
(* Model of drgn's command-line front end (drgn/cli.py): main(), the two   *)
(* closures it hands to Program (lookup_variable, read_memory), and the    *)
(* helpers find_vmlinux and find_modules.  The collaborators imported by   *)
(* cli.py (parse_symbol_file, parse_elf_phdrs, DwarfIndex, DwarfTypeIndex) *)
(* are modelled from their written contracts.                              *)
(***************************************************************************)
EXTENDS Integers, Sequences, FiniteSets, TLC

\* ------------------------------------------------------------------ bounds
MaxSegs == 2        \* entries in the segment table of the memory image
MaxVaddr == 1       \* p_vaddr ranges over 0..MaxVaddr
MaxMemsz == 2       \* p_memsz ranges over 1..MaxMemsz
MaxAddress == 4     \* addresses passed to read_memory
MaxSize == 2        \* sizes passed to read_memory
FileLen == 10       \* length in bytes of the memory image file
FileGap == 4        \* second file offset a segment may be mapped to
MaxListing == 2     \* lines in the symbol listing
MaxSymAddr == 2     \* symbol addresses range over 1..MaxSymAddr
MaxModules == 1     \* files a module glob pattern can match

\* ------------------------------------------------------------------ values
None == <<"none", 0>>
NoAddress == 0 - 1
NoType == <<>>
Names == {"foo", "bar"}
Status == {"absent", "notype", "unsupported", "ok"}

Min(a, b) == IF a <= b THEN a ELSE b

\* the candidate paths of find_vmlinux, in the order of its list
VmlinuxPaths ==
  << <<"/usr/lib/debug/lib/modules/R/vmlinux", 0>>,
     <<"/boot/vmlinux-R", 0>>,
     <<"/lib/modules/R/build/vmlinux", 0>> >>

\* the two glob patterns of find_modules, in the order of its list
ModulePatterns ==
  << "/usr/lib/debug/lib/modules/R/kernel/**/*.ko.debug",
     "/lib/modules/R/kernel/**/*.ko" >>

\* a path given with --executable
GivenExecutable == <<"--executable", 0>>

\* glob.glob(pattern): the k files that match the pattern, in glob's order
Glob(pattern, k) == [i \in 1..k |-> <<pattern, i>>]

AllPaths ==
  {VmlinuxPaths[i] : i \in 1..3} \cup {GivenExecutable}
    \cup {<<ModulePatterns[p], i>> : p \in 1..2, i \in 1..MaxModules}

\* ------------------------------------------------------------------ state
VARIABLES
  argv,        \* the command line: [kernel, executable, script]
  exists,      \* os.path.exists: indexes of VmlinuxPaths that exist
  globs,       \* number of files each module pattern matches
  readable,    \* which opens and parses succeed: [kallsyms, kcore, elf]
  kallsyms,    \* the lines of /proc/kallsyms: sequence of [address, name]
  kcore,       \* the segment table stored in /proc/kcore
  image,       \* the bytes of /proc/kcore
  debuginfo,   \* per binary and name: the state of its variable record
  pc,          \* position of main
  args,        \* the parsed arguments (args.executable is assigned by main)
  exitmsg,     \* message of sys.exit, or of the exception that ended main
  stderr,      \* lines printed to sys.stderr
  paths,       \* the list handed to DwarfIndex
  opened,      \* resources opened so far, in order
  symbols,     \* name -> sequence of addresses
  phdrs,       \* parsed segment list
  core_file,   \* "unopened", "open" or "closed"
  closes,      \* number of times core_file was closed
  call,        \* the last call made by the session
  outcome,     \* what that call returned or raised
  phdr,        \* index of the segment read_memory's loop stopped at, 0 if none
  preads,      \* the positioned reads issued by that call
  consulted    \* the collaborators that call consulted, in order

env == <<argv, exists, globs, readable, kallsyms, kcore, image, debuginfo>>
mainvars == <<pc, args, exitmsg, stderr, paths, opened, core_file, closes>>
tables == <<symbols, phdrs>>
callvars == <<call, outcome, phdr, preads, consulted>>
vars == <<env, mainvars, tables, callvars>>

NoCall == [op |-> "none", name |-> "", address |-> 0, size |-> 0]
NoOutcome ==
  [kind |-> "none", error |-> "", bytes |-> <<>>,
   address |-> NoAddress, type |-> NoType]

Raise(e) == [NoOutcome EXCEPT !.kind = "error", !.error = e]

\* ------------------------------------------------------------------ read_memory
\* the loop's test: phdr.p_vaddr <= address <= phdr.p_vaddr + phdr.p_memsz
InSegment(p, address) ==
  p.p_vaddr <= address /\ address <= p.p_vaddr + p.p_memsz

\* for phdr in phdrs: if ...: break -- the index the loop stops at, 0 for else
FindPhdr(ps, address) ==
  IF \E i \in 1..Len(ps) : InSegment(ps[i], address)
  THEN CHOOSE i \in 1..Len(ps) :
         /\ InSegment(ps[i], address)
         /\ \A j \in 1..(i - 1) : ~InSegment(ps[j], address)
  ELSE 0

\* faulty variant of FileOffset: the segment's start is not subtracted
FileOffsetNotRebased(p, address) == p.p_offset + address

\* phdr.p_offset + address - phdr.p_vaddr
FileOffset(p, address) == p.p_offset + address - p.p_vaddr

\* faulty variant of ReadSize: the read is clipped at the end of the segment
ReadSizeClipped(p, address, size) ==
  Min(size, p.p_vaddr + p.p_memsz - address)

\* the size handed to os.pread
ReadSize(p, address, size) == size

\* os.pread(fd, size, offset): up to size bytes of the file from offset on
Pread(file, size, offset) ==
  SubSeq(file, offset + 1, Min(offset + size, Len(file)))

read_memory(address, size) ==
  /\ pc = "session"
  /\ call' = [op |-> "read_memory", name |-> "", address |-> address,
              size |-> size]
  /\ phdr' = FindPhdr(phdrs, address)
  /\ consulted' = <<>>
  /\ IF phdr' = 0
     THEN /\ outcome' = Raise("ValueError")
          /\ preads' = <<>>
     ELSE LET p == phdrs[phdr']
              n == ReadSize(p, address, size)
              o == FileOffset(p, address)
          IN /\ preads' = <<[offset |-> o, size |-> n]>>
             /\ outcome' = [NoOutcome EXCEPT !.kind = "ok",
                                             !.bytes = Pread(image, n, o)]
  /\ UNCHANGED <<env, mainvars, tables>>

ReadMemory ==
  \E address \in 0..MaxAddress, size \in 1..MaxSize : read_memory(address, size)

\* ------------------------------------------------------------------ lookup_variable
\* parse_symbol_file(f): name -> the addresses of its lines, in listing order
parse_symbol_file(lines) ==
  [n \in {lines[i].name : i \in 1..Len(lines)} |->
     LET idx == {i \in 1..Len(lines) : lines[i].name = n}
         nth[k \in 0..Cardinality(idx)] ==
           IF k = 0 THEN 0
           ELSE CHOOSE i \in idx :
                  /\ i > nth[k - 1]
                  /\ \A j \in idx : j > nth[k - 1] => i <= j
     IN [k \in 1..Cardinality(idx) |-> lines[nth[k]].address]]

\* DwarfIndex.find(name, DW_TAG.variable): the index in ps of the first binary
\* that holds a variable record of that name, 0 if none does
Find(ps, name) ==
  IF \E i \in 1..Len(ps) : debuginfo[ps[i]][name] # "absent"
  THEN CHOOSE i \in 1..Len(ps) :
         /\ debuginfo[ps[i]][name] # "absent"
         /\ \A j \in 1..(i - 1) : debuginfo[ps[j]][name] = "absent"
  ELSE 0

\* faulty variant of LastAddress: the first address of the name is taken
FirstAddress(addrs) == addrs[1]

\* symbols[name][-1]
LastAddress(addrs) == addrs[Len(addrs)]

\* faulty variant of SymbolsAfterLookup: symbols[name].pop() in place of symbols[name][-1]
SymbolsAfterPop(syms, name) ==
  IF name \in DOMAIN syms /\ Len(syms[name]) > 0
  THEN [syms EXCEPT ![name] = SubSeq(syms[name], 1, Len(syms[name]) - 1)]
  ELSE syms

\* the symbol table after symbols[name][-1] was evaluated: subscripting reads
SymbolsAfterLookup(syms, name) == syms

\* faulty variant of LookupOrder: the address is looked up after the type
LookupOrderTypeFirst == <<"find", "type", "find_dwarf_type", "symbols">>

\* the order in which the body of lookup_variable consults its collaborators
LookupOrder == <<"symbols", "find", "type", "find_dwarf_type">>

\* the error a step of lookup_variable raises, "" if it raises none
StepError(step, name) ==
  LET b == Find(paths, name)
      st == IF b = 0 THEN "absent" ELSE debuginfo[paths[b]][name]
  IN CASE step = "symbols" ->
            IF name \notin DOMAIN symbols THEN "KeyError"
            ELSE IF Len(symbols[name]) = 0 THEN "IndexError" ELSE ""
       [] step = "find" -> IF b = 0 THEN "NotFound" ELSE ""
       [] step = "type" -> IF st = "notype" THEN "MissingAttribute" ELSE ""
       [] step = "find_dwarf_type" ->
            IF st = "unsupported" THEN "UnsupportedType" ELSE ""

\* the steps of order that are evaluated: up to and including the first that raises
Evaluated(order, name) ==
  IF \E i \in 1..Len(order) : StepError(order[i], name) # ""
  THEN SubSeq(order, 1,
              CHOOSE i \in 1..Len(order) :
                /\ StepError(order[i], name) # ""
                /\ \A j \in 1..(i - 1) : StepError(order[j], name) = "")
  ELSE order

lookup_variable(name) ==
  /\ pc = "session"
  /\ call' = [op |-> "lookup_variable", name |-> name, address |-> 0,
              size |-> 0]
  /\ consulted' = Evaluated(LookupOrder, name)
  /\ LET e == StepError(consulted'[Len(consulted')], name)
     IN outcome' =
          IF e # "" THEN Raise(e)
          ELSE [NoOutcome EXCEPT
                  !.kind = "ok",
                  !.address = LastAddress(symbols[name]),
                  !.type = <<paths[Find(paths, name)], name>>]
  /\ symbols' = IF "symbols" \in {consulted'[i] : i \in 1..Len(consulted')}
                THEN SymbolsAfterLookup(symbols, name)
                ELSE symbols
  /\ phdr' = 0
  /\ preads' = <<>>
  /\ UNCHANGED <<env, mainvars, phdrs>>

LookupVariable == \E name \in Names : lookup_variable(name)

\* ------------------------------------------------------------------ main
\* faulty variant of find_vmlinux: the last candidate that exists is returned
find_vmlinux_last(ex) ==
  IF \E i \in 1..Len(VmlinuxPaths) : i \in ex
  THEN VmlinuxPaths[CHOOSE i \in 1..Len(VmlinuxPaths) :
                      i \in ex /\ \A j \in (i + 1)..Len(VmlinuxPaths) : j \notin ex]
  ELSE None

\* find_vmlinux(release): the first candidate that exists, None for ValueError
find_vmlinux(ex) ==
  IF \E i \in 1..Len(VmlinuxPaths) : i \in ex
  THEN VmlinuxPaths[CHOOSE i \in 1..Len(VmlinuxPaths) :
                      i \in ex /\ \A j \in 1..(i - 1) : j \notin ex]
  ELSE None

\* find_modules(release): the matches of the first pattern that has any
find_modules(g) ==
  IF \E p \in 1..Len(ModulePatterns) : g[p] > 0
  THEN LET p == CHOOSE q \in 1..Len(ModulePatterns) :
                  g[q] > 0 /\ \A r \in 1..(q - 1) : g[r] = 0
       IN Glob(ModulePatterns[p], g[p])
  ELSE <<>>

\* paths = find_modules(release); paths.append(args.executable)
BinaryPaths(g, executable) == Append(find_modules(g), executable)

\* parse_elf_phdrs(core_file): every entry of the table, in table order
parse_elf_phdrs(table) ==
  [i \in 1..Len(table) |->
     [p_vaddr |-> table[i].start, p_memsz |-> table[i].length,
      p_offset |-> table[i].offset]]

\* faulty variant of WithExit: the file is closed on the normal path only
WithExitNoCleanup(file, raised) == IF raised THEN file ELSE "closed"

\* leaving the block of `with open('/proc/kcore', 'rb') as core_file`
WithExit(file, raised) == "closed"

SysExit(msg) ==
  /\ pc' = "exited"
  /\ exitmsg' = msg

\* if not args.kernel: sys.exit(...)
CheckKernel ==
  /\ pc = "start"
  /\ IF ~args.kernel
     THEN SysExit("Only --kernel mode is currently implemented")
     ELSE pc' = "executable" /\ UNCHANGED exitmsg
  /\ UNCHANGED <<env, args, stderr, paths, opened, core_file, closes, tables,
                 callvars>>

\* if args.executable is None: args.executable = find_vmlinux(release)
FindExecutable ==
  /\ pc = "executable"
  /\ IF args.executable # None
     THEN pc' = "modules" /\ UNCHANGED <<args, exitmsg>>
     ELSE IF find_vmlinux(exists) = None
     THEN SysExit("Could not find vmlinux file") /\ UNCHANGED args
     ELSE /\ args' = [args EXCEPT !.executable = find_vmlinux(exists)]
          /\ pc' = "modules"
          /\ UNCHANGED exitmsg
  /\ UNCHANGED <<env, stderr, paths, opened, core_file, closes, tables,
                 callvars>>

\* paths = find_modules(release) ... paths.append(args.executable)
FindModules ==
  /\ pc = "modules"
  /\ stderr' = IF find_modules(globs) = <<>> /\ args.script = <<>>
               THEN Append(stderr, "Could not find kernel modules")
               ELSE stderr
  /\ paths' = BinaryPaths(globs, args.executable)
  /\ pc' = "index"
  /\ UNCHANGED <<env, args, exitmsg, opened, core_file, closes, tables,
                 callvars>>

\* dwarf_index = DwarfIndex(paths); type_index = DwarfTypeIndex(dwarf_index)
OpenIndex ==
  /\ pc = "index"
  /\ opened' = Append(opened, "dwarf_index")
  /\ pc' = "kallsyms"
  /\ UNCHANGED <<env, args, exitmsg, stderr, paths, core_file, closes, tables,
                 callvars>>

\* with open('/proc/kallsyms', 'r') as f: symbols = parse_symbol_file(f)
ReadKallsyms ==
  /\ pc = "kallsyms"
  /\ IF readable.kallsyms
     THEN /\ opened' = Append(opened, "kallsyms")
          /\ symbols' = parse_symbol_file(kallsyms)
          /\ pc' = "kcore"
          /\ UNCHANGED exitmsg
     ELSE /\ pc' = "crashed"
          /\ exitmsg' = "OSError: /proc/kallsyms"
          /\ UNCHANGED <<opened, symbols>>
  /\ UNCHANGED <<env, args, stderr, paths, core_file, closes, phdrs, callvars>>

\* with open('/proc/kcore', 'rb') as core_file:
OpenKcore ==
  /\ pc = "kcore"
  /\ IF readable.kcore
     THEN /\ opened' = Append(opened, "kcore")
          /\ core_file' = "open"
          /\ pc' = "phdrs"
          /\ UNCHANGED exitmsg
     ELSE /\ pc' = "crashed"
          /\ exitmsg' = "OSError: /proc/kcore"
          /\ UNCHANGED <<opened, core_file>>
  /\ UNCHANGED <<env, args, stderr, paths, closes, tables, callvars>>

\* phdrs = parse_elf_phdrs(core_file), then the closures and Program(...)
ParsePhdrs ==
  /\ pc = "phdrs"
  /\ IF readable.elf
     THEN /\ phdrs' = parse_elf_phdrs(kcore)
          /\ pc' = "session"
          /\ UNCHANGED <<exitmsg, core_file, closes>>
     ELSE /\ core_file' = WithExit(core_file, TRUE)
          /\ closes' = IF core_file' = "closed" THEN closes + 1 ELSE closes
          /\ pc' = "crashed"
          /\ exitmsg' = "ElfFormatError"
          /\ UNCHANGED phdrs
  /\ UNCHANGED <<env, args, stderr, paths, opened, symbols, callvars>>

\* runpy.run_path(...) or code.interact(...) returns or raises; the with
\* block is left
EndSession ==
  /\ pc = "session"
  /\ \E raised \in BOOLEAN :
       /\ core_file' = WithExit(core_file, raised)
       /\ closes' = IF core_file' = "closed" THEN closes + 1 ELSE closes
       /\ pc' = IF raised THEN "crashed" ELSE "done"
       /\ exitmsg' = IF raised THEN "session raised" ELSE exitmsg
  /\ UNCHANGED <<env, args, stderr, paths, opened, tables, callvars>>

\* ------------------------------------------------------------------ specifications
Byte(offset) == (offset * 37 + 11) % 256
Image == [i \in 1..FileLen |-> Byte(i - 1)]

SeqsUpTo(S, n) == UNION {[1..k -> S] : k \in 0..n}

Segments ==
  [start : 0..MaxVaddr, length : 1..MaxMemsz, offset : {0, FileGap}]
Lines == [address : 1..MaxSymAddr, name : Names]
Argv ==
  [kernel : BOOLEAN, executable : {None, GivenExecutable},
   script : {<<>>, <<"script.py">>}]

\* the files of one machine, used where a specification does not vary them
Kallsyms0 ==
  <<[address |-> 1, name |-> "foo"], [address |-> 2, name |-> "foo"]>>
Kcore0 ==
  <<[start |-> 0, length |-> 1, offset |-> 0],
    [start |-> 1, length |-> 2, offset |-> FileGap]>>
Debuginfo0 ==
  [b \in AllPaths |-> [n \in Names |-> IF n = "foo" THEN "ok" ELSE "absent"]]

MainStart ==
  /\ pc = "start"
  /\ args = argv
  /\ exitmsg = ""
  /\ stderr = <<>>
  /\ paths = <<>>
  /\ opened = <<>>
  /\ symbols = <<>>
  /\ phdrs = <<>>
  /\ core_file = "unopened"
  /\ closes = 0
  /\ call = NoCall
  /\ outcome = NoOutcome
  /\ phdr = 0
  /\ preads = <<>>
  /\ consulted = <<>>

\* main from its first statement, on every command line and file system
Init ==
  /\ argv \in Argv
  /\ exists \in SUBSET (1..Len(VmlinuxPaths))
  /\ globs \in [1..Len(ModulePatterns) -> 0..MaxModules]
  /\ readable \in [kallsyms : BOOLEAN, kcore : BOOLEAN, elf : BOOLEAN]
  /\ kallsyms = Kallsyms0
  /\ kcore = Kcore0
  /\ image = Image
  /\ debuginfo = Debuginfo0
  /\ MainStart

Next ==
  \/ CheckKernel
  \/ FindExecutable
  \/ FindModules
  \/ OpenIndex
  \/ ReadKallsyms
  \/ OpenKcore
  \/ ParsePhdrs
  \/ ReadMemory
  \/ LookupVariable
  \/ EndSession

Spec == Init /\ [][Next]_vars

\* main as it stands when the session starts: `drgn -k` with the second
\* vmlinux candidate present and one module found by the second pattern
SessionStart ==
  /\ argv = [kernel |-> TRUE, executable |-> None, script |-> <<>>]
  /\ exists = {2}
  /\ globs = [p \in 1..Len(ModulePatterns) |-> IF p = 2 THEN 1 ELSE 0]
  /\ readable = [kallsyms |-> TRUE, kcore |-> TRUE, elf |-> TRUE]
  /\ image = Image
  /\ pc = "session"
  /\ args = [argv EXCEPT !.executable = find_vmlinux(exists)]
  /\ exitmsg = ""
  /\ stderr = <<>>
  /\ paths = BinaryPaths(globs, args.executable)
  /\ opened = <<"dwarf_index", "kallsyms", "kcore">>
  /\ symbols = parse_symbol_file(kallsyms)
  /\ phdrs = parse_elf_phdrs(kcore)
  /\ core_file = "open"
  /\ closes = 0
  /\ call = NoCall
  /\ outcome = NoOutcome
  /\ phdr = 0
  /\ preads = <<>>
  /\ consulted = <<>>

NextSession == ReadMemory \/ LookupVariable

\* a session over every segment table within the bounds
InitRead ==
  /\ kcore \in SeqsUpTo(Segments, MaxSegs)
  /\ kallsyms = Kallsyms0
  /\ debuginfo = Debuginfo0
  /\ SessionStart

SpecRead == InitRead /\ [][NextSession]_vars

\* a session over every symbol listing and every state of the debug records
InitLookup ==
  /\ kallsyms \in SeqsUpTo(Lines, MaxListing)
  /\ kcore = Kcore0
  /\ debuginfo \in
       {[b \in AllPaths |-> IF b \in DOMAIN d THEN d[b]
                            ELSE [n \in Names |-> "absent"]] :
          d \in [{<<ModulePatterns[2], 1>>, VmlinuxPaths[2]} ->
                   [Names -> Status]]}
  /\ SessionStart

NextLookup == LookupVariable

SpecLookup == InitLookup /\ [][NextLookup]_vars

\* ------------------------------------------------------------------ properties
IsRead == call.op = "read_memory"
IsLookup == call.op = "lookup_variable"

\* address lies in the half-open range [start, start + length) of the segment
Contains(p, address) ==
  p.p_vaddr <= address /\ address < p.p_vaddr + p.p_memsz

\* translate(address): the first segment in table order that contains address
Translate(ps, address) ==
  IF \E i \in 1..Len(ps) : Contains(ps[i], address)
  THEN CHOOSE i \in 1..Len(ps) :
         /\ Contains(ps[i], address)
         /\ \A j \in 1..(i - 1) : ~Contains(ps[j], address)
  ELSE 0

SetMax(S) == CHOOSE x \in S : \A y \in S : y <= x
SetMin(S) == CHOOSE x \in S : \A y \in S : x <= y

\* the bytes of the image from offset o on, at most n of them
RawBytes(o, n) ==
  [k \in 1..(IF o >= Len(image) THEN 0 ELSE Min(n, Len(image) - o)) |->
     image[o + k]]

\* C1: read_memory selects the first segment in table order whose half-open
\* range [start, start + length) contains the address; an address equal to
\* start + length of a segment is not contained in that segment.
C1_FirstHalfOpenSegment ==
  IsRead => phdr = Translate(phdrs, call.address)

\* C2: read_memory raises the address-not-mapped error (ValueError) for every
\* address outside all [start, start + length) ranges, and then issues no
\* positioned read.
C2_UnmappedAddressRaises ==
  (IsRead /\ Translate(phdrs, call.address) = 0) =>
    /\ outcome.kind = "error"
    /\ outcome.error = "ValueError"
    /\ preads = <<>>

\* C3: when the address is contained in the matched segment, read_memory
\* issues exactly one positioned read of exactly `size` bytes at
\* p_offset + (address - p_vaddr) of that segment and returns its bytes; for a
\* single segment mapped to file offset 0, a read at the segment's start
\* returns the first `size` bytes of the file.
C3_PositionedRead ==
  (IsRead /\ phdr # 0 /\ Contains(phdrs[phdr], call.address)) =>
    LET p == phdrs[phdr]
        o == p.p_offset + (call.address - p.p_vaddr)
    IN /\ preads = <<[offset |-> o, size |-> call.size]>>
       /\ outcome.kind = "ok"
       /\ outcome.bytes = RawBytes(o, call.size)
       /\ (Len(phdrs) = 1 /\ p.p_offset = 0 /\ call.address = p.p_vaddr
             /\ call.size <= Len(image))
            => outcome.bytes = SubSeq(image, 1, call.size)

\* a read of MaxSize bytes at the start of a single segment, not based at
\* address 0, mapped to file offset 0
C3_Witness ==
  /\ IsRead
  /\ Len(phdrs) = 1
  /\ phdr = 1
  /\ phdrs[1].p_offset = 0
  /\ phdrs[1].p_vaddr > 0
  /\ call.address = phdrs[1].p_vaddr
  /\ call.size = MaxSize
  /\ outcome.bytes = SubSeq(image, 1, MaxSize)

\* C4: a read that starts inside the matched segment and extends past its end
\* is neither rejected nor truncated nor redirected: one read of the requested
\* size at the offset computed from the matched segment, returning the raw
\* file bytes that follow the segment's file extent.
C4_BoundaryCrossingRead ==
  (IsRead /\ phdr # 0
     /\ Contains(phdrs[phdr], call.address)
     /\ call.address + call.size > phdrs[phdr].p_vaddr + phdrs[phdr].p_memsz) =>
    LET p == phdrs[phdr]
        o == p.p_offset + (call.address - p.p_vaddr)
    IN /\ outcome.kind = "ok"
       /\ Len(preads) = 1
       /\ preads[1].size = call.size
       /\ preads[1].offset = o
       /\ Len(outcome.bytes) = Min(call.size, Len(image) - o)
       /\ \A k \in 1..Len(outcome.bytes) : outcome.bytes[k] = image[o + k]

\* a read that starts in the first segment and ends in the address range of a
\* second segment mapped elsewhere in the file
C4_Witness ==
  /\ IsRead
  /\ Len(phdrs) = 2
  /\ phdr = 1
  /\ Contains(phdrs[1], call.address)
  /\ call.address + call.size > phdrs[1].p_vaddr + phdrs[1].p_memsz
  /\ Contains(phdrs[2], call.address + call.size - 1)
  /\ phdrs[2].p_offset # phdrs[1].p_offset
  /\ Len(outcome.bytes) = call.size

\* the lines of the listing that carry the name
Occurrences(name) == {i \in 1..Len(kallsyms) : kallsyms[i].name = name}

\* C5: the address lookup_variable returns is the last address recorded for
\* the name in listing order; a name that never appeared fails with the
\* unknown-symbol error (KeyError).
C5_LastAddressWins ==
  IsLookup =>
    IF Occurrences(call.name) = {}
    THEN outcome.kind = "error" /\ outcome.error = "KeyError"
    ELSE /\ outcome.error # "KeyError"
         /\ outcome.kind = "ok" =>
              outcome.address = kallsyms[SetMax(Occurrences(call.name))].address

\* a successful lookup of a name listed twice with different addresses
C5_Witness ==
  /\ IsLookup
  /\ outcome.kind = "ok"
  /\ Len(kallsyms) >= 2
  /\ kallsyms[1].name = call.name
  /\ kallsyms[2].name = call.name
  /\ kallsyms[1].address # kallsyms[2].address
  /\ outcome.address = kallsyms[2].address

\* the state of the variable record DwarfIndex.find returns for the name
RecordStatus(name) ==
  IF Find(paths, name) = 0 THEN "absent"
  ELSE debuginfo[paths[Find(paths, name)]][name]

\* C6: lookup_variable returns both the address and the type or raises and
\* returns neither; the error is the first that applies in the order symbol
\* table, find, type, type resolution; a name missing from the symbol table
\* fails with KeyError without the debug index or type resolver being consulted.
C6_NoPartialSuccess ==
  IsLookup =>
    /\ outcome.kind \in {"ok", "error"}
    /\ outcome.kind = "ok" =>
         outcome.address # NoAddress /\ outcome.type # NoType
    /\ outcome.kind = "error" =>
         outcome.address = NoAddress /\ outcome.type = NoType
    /\ outcome.error =
         IF Occurrences(call.name) = {} THEN "KeyError"
         ELSE IF RecordStatus(call.name) = "absent" THEN "NotFound"
         ELSE IF RecordStatus(call.name) = "notype" THEN "MissingAttribute"
         ELSE IF RecordStatus(call.name) = "unsupported" THEN "UnsupportedType"
         ELSE ""
    /\ (outcome.kind = "ok") = (outcome.error = "")
    /\ Occurrences(call.name) = {} => consulted = <<"symbols">>

\* a lookup of a name that is in neither the symbol table nor the debug index
C6_Witness ==
  /\ IsLookup
  /\ Occurrences(call.name) = {}
  /\ RecordStatus(call.name) = "absent"
  /\ outcome.error = "KeyError"
  /\ consulted = <<"symbols">>

Ended == pc \in {"done", "crashed", "exited"}

C7_State ==
  /\ pc = "session" =>
       /\ core_file = "open"
       /\ closes = 0
       /\ "kcore" \in {opened[i] : i \in 1..Len(opened)}
       /\ phdrs = parse_elf_phdrs(kcore)
  /\ closes <= 1
  /\ Ended =>
       IF "kcore" \in {opened[i] : i \in 1..Len(opened)}
       THEN core_file = "closed" /\ closes = 1
       ELSE core_file = "unopened" /\ closes = 0
  /\ ~readable.kcore => pc # "session" /\ call = NoCall

C7_Step ==
  /\ (IsRead' /\ <<call, outcome>>' # <<call, outcome>>) =>
       core_file = "open" /\ core_file' = "open"
  /\ (pc = "session" /\ pc' # "session") => core_file' = "closed"

\* C7: the image is opened and its segment table parsed before the session
\* starts, every read_memory call happens while the file is open, the file is
\* closed exactly once when the session ends, normally or by an error, and a
\* failure to open the image keeps the session from starting.
C7_ImageOpenDuringSession == []C7_State /\ [][C7_Step]_vars

\* a session that made a read and ended by an error, with the file closed
C7_Witness ==
  /\ pc = "crashed"
  /\ exitmsg = "session raised"
  /\ IsRead
  /\ outcome.kind = "ok"
  /\ core_file = "closed"
  /\ closes = 1

C8_Step ==
  pc = "session" =>
    /\ phdrs' = phdrs
    /\ symbols' = symbols
    /\ image' = image
    /\ call' = call => (outcome' = outcome /\ preads' = preads)

C8_State ==
  pc = "session" =>
    /\ phdrs = parse_elf_phdrs(kcore)
    /\ symbols = parse_symbol_file(kallsyms)
    /\ image = Image

\* C8: lookup_variable and read_memory calls, successful or failing, leave the
\* segment table, the symbol table and the image unchanged; repeating a call
\* with the same inputs gives the same outcome.
C8_CallsLeaveTablesUnchanged == []C8_State /\ [][C8_Step]_vars

\* a successful lookup of a name with two addresses, the table as parsed
C8_Witness ==
  /\ IsLookup
  /\ outcome.kind = "ok"
  /\ Len(symbols[call.name]) = 2
  /\ symbols = parse_symbol_file(kallsyms)

\* C9: the list main hands to the debug index holds the primary executable
\* exactly once and first, ahead of every module path, so a record defined in
\* the primary binary and in a module resolves to the primary binary's.
C9_PrimaryBinaryFirst ==
  /\ paths # <<>> =>
       /\ paths[1] = args.executable
       /\ Cardinality({i \in 1..Len(paths) : paths[i] = args.executable}) = 1
  /\ (IsLookup /\ outcome.kind = "ok") => outcome.type[1] = args.executable

\* find_vmlinux ran: --kernel was given, --executable was not
RanFindVmlinux ==
  pc \notin {"start", "executable"} /\ argv.kernel /\ argv.executable = None

\* C10: find_vmlinux returns the first existing candidate in its fixed order
\* and raises ValueError iff none exists; in main that error ends the program
\* before any debug index, symbol table or memory image is opened.
C10_FirstExistingVmlinux ==
  /\ (RanFindVmlinux /\ exists # {}) =>
       /\ args.executable = VmlinuxPaths[SetMin(exists)]
       /\ exitmsg # "Could not find vmlinux file"
  /\ (RanFindVmlinux /\ exists = {}) =>
       /\ pc = "exited"
       /\ exitmsg = "Could not find vmlinux file"
       /\ opened = <<>>
       /\ core_file = "unopened"
       /\ symbols = <<>>
  /\ exitmsg = "Could not find vmlinux file" => RanFindVmlinux /\ exists = {}

\* the session of a run that found the second and third candidate
C10_Witness ==
  /\ pc = "session"
  /\ argv.executable = None
  /\ exists = {2, 3}
  /\ args.executable = VmlinuxPaths[2]

====
